---- MODULE Spec2Model ----
(***************************************************************************)
(* Inventory scheduling library (pybinding/scheduling_py.py).              *)
(*                                                                         *)
(* The Python module is a thin wrapper over the C# classes Product,        *)
(* Location and ProductLocation of Scheduling.Models.  The wrapper         *)
(* functions are translated from scheduling_py.py; the C# classes they     *)
(* delegate to are not part of the Python sources and are modelled from    *)
(* the natural-language specification (sections 3 and 4).                  *)
(*                                                                         *)
(* A Python datetime is modelled by its sub-second part in microseconds    *)
(* (the calendar fields year..second are passed through unchanged by both  *)
(* conversions and are held fixed); a C# DateTime by its Millisecond.      *)
(* Quantities are integers.  A product_location handle is the key of a     *)
(* registered relation, as obtained from ProductLocation.create/get.       *)
(* discarded is a history variable: it records which ledgers were thrown   *)
(* away with entries in them and is read by no operation.                  *)
(***************************************************************************)
EXTENDS Integers, Sequences, FiniteSets, TLC

\* ---------------------------------------------------------------- bounds
MaxMs == 1        \* datetimes of the ledger runs fall in milliseconds 0..MaxMs
MaxQty == 1       \* quantities passed to a write are -MaxQty..MaxQty
MaxNet == 2       \* a write is taken only while the stored netChange stays within -MaxNet..MaxNet

\* ------------------------------------------------------------- constants
UsPerMs == 1000   \* microseconds per millisecond

ProductNames == {"Widget", "Gadget"}
LocationNames == {"Warehouse-A"}
SubMs == {0, 999}
DateTimes == {ms * UsPerMs + off : ms \in 0..MaxMs, off \in SubMs}
RegDateTimes == SubMs   \* registry runs write within one millisecond
Quantities == (0 - MaxQty)..MaxQty

VARIABLES products, locations, registry, last, discarded

vars == <<products, locations, registry, last, discarded>>

\* the call made last: its name, its arguments (a, b: names or the handle;
\* time, qty: the datetime and quantity of a ledger write), what it raised
\* and what it returned
NoTime == 0 - 1
Call(op, a, b, time, qty, raised, ret) ==
    [op |-> op, a |-> a, b |-> b, time |-> time, qty |-> qty, raised |-> raised, ret |-> ret]

\* ------------------------------------------------------- datetime bridge
\* faulty variant: the microseconds are rounded to the nearest millisecond
python_datetime_to_csharp_rounds(dt) == (dt + UsPerMs \div 2) \div UsPerMs

python_datetime_to_csharp(dt) == dt \div UsPerMs

\* faulty variant: the millisecond is not carried over
csharp_datetime_to_python_no_ms(dt) == 0

csharp_datetime_to_python(dt) == dt * UsPerMs

\* ------------------------------------------- C# Inventory Ledger (4.3)
\* entries: sequence of [Item1 |-> DateTime, Item2 |-> netChange], ascending by Item1
RECURSIVE IndexOfTime(_, _, _)
IndexOfTime(entries, time, i) ==
    IF i > Len(entries) THEN 0
    ELSE IF entries[i].Item1 = time THEN i
    ELSE IndexOfTime(entries, time, i + 1)

RECURSIVE InsertSorted(_, _)
InsertSorted(entries, e) ==
    IF entries = <<>> THEN <<e>>
    ELSE IF e.Item1 < Head(entries).Item1 THEN <<e>> \o entries
    ELSE <<Head(entries)>> \o InsertSorted(Tail(entries), e)

UpdateInventory(entries, time, netChange) ==
    LET i == IndexOfTime(entries, time, 1) IN
    IF i = 0 THEN InsertSorted(entries, [Item1 |-> time, Item2 |-> netChange])
    ELSE [entries EXCEPT ![i].Item2 = netChange]

AddInventory(entries, time, quantity) ==
    LET i == IndexOfTime(entries, time, 1) IN
    IF i = 0 THEN InsertSorted(entries, [Item1 |-> time, Item2 |-> quantity])
    ELSE [entries EXCEPT ![i].Item2 = @ + quantity]

RemoveInventory(entries, time, quantity) ==
    LET i == IndexOfTime(entries, time, 1) IN
    IF i = 0 THEN InsertSorted(entries, [Item1 |-> time, Item2 |-> 0 - quantity])
    ELSE [entries EXCEPT ![i].Item2 = @ - quantity]

GetInventoryChangeAtTime(entries, time) ==
    LET i == IndexOfTime(entries, time, 1) IN
    IF i = 0 THEN 0 ELSE entries[i].Item2

RECURSIVE GetCumulativeInventory(_, _)
GetCumulativeInventory(entries, time) ==
    IF entries = <<>> THEN 0
    ELSE IF Head(entries).Item1 <= time
         THEN Head(entries).Item2 + GetCumulativeInventory(Tail(entries), time)
         ELSE 0

GetAllInventoryChanges(entries) == entries

GetInventoryChangesInRange(entries, start, end) ==
    SelectSeq(entries, LAMBDA e : start <= e.Item1 /\ e.Item1 <= end)

\* ------------------------------------------------ C# Entity Catalog (4.1)
CSharpProduct_Create(name) ==
    [raised |-> "None", ret |-> name, products |-> products \cup {name}]

CSharpProduct_Remove(name) ==
    [raised |-> "None", ret |-> IF name \in products THEN "True" ELSE "False",
     products |-> products \ {name}]

CSharpProduct_Exists(name) == name \in products

CSharpLocation_Create(name) ==
    [raised |-> "None", ret |-> name, locations |-> locations \cup {name}]

CSharpLocation_Remove(name) ==
    [raised |-> "None", ret |-> IF name \in locations THEN "True" ELSE "False",
     locations |-> locations \ {name}]

CSharpLocation_Exists(name) == name \in locations

\* --------------------------------------------- C# Relation Registry (4.2)
RelationKey(productName, locationName) == productName \o "@" \o locationName

NewRelation(productName, locationName) ==
    [ProductName |-> productName, LocationName |-> locationName,
     Key |-> RelationKey(productName, locationName), entries |-> <<>>]

\* faulty variant: the two entities are not looked up
CSharpProductLocation_Create_unchecked(productName, locationName) ==
    LET key == RelationKey(productName, locationName) IN
    IF key \in DOMAIN registry
    THEN [raised |-> "None", ret |-> key, registry |-> registry]
    ELSE [raised |-> "None", ret |-> key,
          registry |-> registry @@ (key :> NewRelation(productName, locationName))]

CSharpProductLocation_Create(productName, locationName) ==
    LET key == RelationKey(productName, locationName) IN
    IF productName \notin products \/ locationName \notin locations
    THEN [raised |-> "NotFound", ret |-> "None", registry |-> registry]
    ELSE IF key \in DOMAIN registry
    THEN [raised |-> "None", ret |-> key, registry |-> registry]
    ELSE [raised |-> "None", ret |-> key,
          registry |-> registry @@ (key :> NewRelation(productName, locationName))]

CSharpProductLocation_Remove(productName, locationName) ==
    LET key == RelationKey(productName, locationName) IN
    [raised |-> "None", ret |-> IF key \in DOMAIN registry THEN "True" ELSE "False",
     registry |-> [k \in DOMAIN registry \ {key} |-> registry[k]]]

CSharpProductLocation_Exists(productName, locationName) ==
    RelationKey(productName, locationName) \in DOMAIN registry

CSharpProductLocation_GetByKey(key) ==
    IF key \in DOMAIN registry
    THEN [raised |-> "None", ret |-> key]
    ELSE [raised |-> "NotFound", ret |-> "None"]

\* ------------------------------------------------ wrapper: class Product
\* faulty variant: a registered name is refused
Product_create_refuses(name) ==
    LET r == CSharpProduct_Create(name) IN
    /\ products' = r.products
    /\ last' = Call("Product.create", name, "", NoTime, 0,
                    IF name \in products THEN "AlreadyExists" ELSE r.raised,
                    IF name \in products THEN "None" ELSE r.ret)
    /\ UNCHANGED <<locations, registry, discarded>>

Product_create(name) ==
    LET r == CSharpProduct_Create(name) IN
    /\ products' = r.products
    /\ last' = Call("Product.create", name, "", NoTime, 0, r.raised, r.ret)
    /\ UNCHANGED <<locations, registry, discarded>>

\* faulty variant: the relations of the product are removed with it
Product_remove_cascades(name) ==
    LET r == CSharpProduct_Remove(name) IN
    /\ products' = r.products
    /\ last' = Call("Product.remove", name, "", NoTime, 0, r.raised, r.ret)
    /\ registry' = [k \in {x \in DOMAIN registry : registry[x].ProductName # name} |->
                        registry[k]]
    /\ UNCHANGED <<locations, discarded>>

Product_remove(name) ==
    LET r == CSharpProduct_Remove(name) IN
    /\ products' = r.products
    /\ last' = Call("Product.remove", name, "", NoTime, 0, r.raised, r.ret)
    /\ UNCHANGED <<locations, registry, discarded>>

Product_exists(name) == CSharpProduct_Exists(name)

Product_get_all == products

\* ----------------------------------------------- wrapper: class Location
Location_create(name) ==
    LET r == CSharpLocation_Create(name) IN
    /\ locations' = r.locations
    /\ last' = Call("Location.create", name, "", NoTime, 0, r.raised, r.ret)
    /\ UNCHANGED <<products, registry, discarded>>

Location_remove(name) ==
    LET r == CSharpLocation_Remove(name) IN
    /\ locations' = r.locations
    /\ last' = Call("Location.remove", name, "", NoTime, 0, r.raised, r.ret)
    /\ UNCHANGED <<products, registry, discarded>>

Location_exists(name) == CSharpLocation_Exists(name)

Location_get_all == locations

\* ---------------------------------------- wrapper: class ProductLocation
\* faulty variant: a registered pair gets a new relation
ProductLocation_create_replaces(product_name, location_name) ==
    LET r == CSharpProductLocation_Create(product_name, location_name)
        key == RelationKey(product_name, location_name)
    IN
    /\ registry' = IF r.raised = "None"
                   THEN [k \in DOMAIN r.registry |->
                            IF k = key THEN NewRelation(product_name, location_name)
                            ELSE r.registry[k]]
                   ELSE r.registry
    /\ last' = Call("ProductLocation.create", product_name, location_name, NoTime, 0,
                    r.raised, r.ret)
    /\ UNCHANGED <<products, locations, discarded>>

ProductLocation_create(product_name, location_name) ==
    LET r == CSharpProductLocation_Create(product_name, location_name) IN
    /\ registry' = r.registry
    /\ last' = Call("ProductLocation.create", product_name, location_name, NoTime, 0,
                    r.raised, r.ret)
    /\ UNCHANGED <<products, locations, discarded>>

\* history: the keys whose relation went while its ledger held entries
Discard(product_name, location_name) ==
    LET key == RelationKey(product_name, location_name) IN
    IF key \in DOMAIN registry /\ key \notin DOMAIN registry'
       /\ registry[key].entries # <<>>
    THEN discarded \cup {key}
    ELSE discarded

\* faulty variant: calls Exists, the relation stays registered
ProductLocation_remove_keeps(product_name, location_name) ==
    /\ registry' = registry
    /\ last' = Call("ProductLocation.remove", product_name, location_name, NoTime, 0,
                    "None",
                    IF CSharpProductLocation_Exists(product_name, location_name)
                    THEN "True" ELSE "False")
    /\ discarded' = Discard(product_name, location_name)
    /\ UNCHANGED <<products, locations>>

ProductLocation_remove(product_name, location_name) ==
    LET r == CSharpProductLocation_Remove(product_name, location_name) IN
    /\ registry' = r.registry
    /\ last' = Call("ProductLocation.remove", product_name, location_name, NoTime, 0,
                    r.raised, r.ret)
    /\ discarded' = Discard(product_name, location_name)
    /\ UNCHANGED <<products, locations>>

ProductLocation_get_by_key(key) == CSharpProductLocation_GetByKey(key)

ProductLocation_exists(product_name, location_name) ==
    CSharpProductLocation_Exists(product_name, location_name)

ProductLocation_get_all == {registry[k] : k \in DOMAIN registry}

\* ------------------------------------------- wrapper: inventory helpers
\* faulty variant: calls UpdateInventory
add_inventory_overwrites(product_location, time, quantity) ==
    LET cs_time == python_datetime_to_csharp(time) IN
    /\ registry' = [registry EXCEPT ![product_location].entries =
                        UpdateInventory(@, cs_time, quantity)]
    /\ last' = Call("add_inventory", product_location, "", time, quantity, "None", "None")
    /\ UNCHANGED <<products, locations, discarded>>

add_inventory(product_location, time, quantity) ==
    LET cs_time == python_datetime_to_csharp(time) IN
    /\ registry' = [registry EXCEPT ![product_location].entries =
                        AddInventory(@, cs_time, quantity)]
    /\ last' = Call("add_inventory", product_location, "", time, quantity, "None", "None")
    /\ UNCHANGED <<products, locations, discarded>>

\* faulty variant: calls AddInventory
remove_inventory_adds(product_location, time, quantity) ==
    LET cs_time == python_datetime_to_csharp(time) IN
    /\ registry' = [registry EXCEPT ![product_location].entries =
                        AddInventory(@, cs_time, quantity)]
    /\ last' = Call("remove_inventory", product_location, "", time, quantity, "None", "None")
    /\ UNCHANGED <<products, locations, discarded>>

remove_inventory(product_location, time, quantity) ==
    LET cs_time == python_datetime_to_csharp(time) IN
    /\ registry' = [registry EXCEPT ![product_location].entries =
                        RemoveInventory(@, cs_time, quantity)]
    /\ last' = Call("remove_inventory", product_location, "", time, quantity, "None", "None")
    /\ UNCHANGED <<products, locations, discarded>>

\* faulty variant: calls AddInventory
update_inventory_accumulates(product_location, time, net_change) ==
    LET cs_time == python_datetime_to_csharp(time) IN
    /\ registry' = [registry EXCEPT ![product_location].entries =
                        AddInventory(@, cs_time, net_change)]
    /\ last' = Call("update_inventory", product_location, "", time, net_change, "None", "None")
    /\ UNCHANGED <<products, locations, discarded>>

update_inventory(product_location, time, net_change) ==
    LET cs_time == python_datetime_to_csharp(time) IN
    /\ registry' = [registry EXCEPT ![product_location].entries =
                        UpdateInventory(@, cs_time, net_change)]
    /\ last' = Call("update_inventory", product_location, "", time, net_change, "None", "None")
    /\ UNCHANGED <<products, locations, discarded>>

\* faulty variant: calls GetInventoryChangeAtTime
get_cumulative_inventory_point(product_location, time) ==
    LET cs_time == python_datetime_to_csharp(time) IN
    GetInventoryChangeAtTime(registry[product_location].entries, cs_time)

get_cumulative_inventory(product_location, time) ==
    LET cs_time == python_datetime_to_csharp(time) IN
    GetCumulativeInventory(registry[product_location].entries, cs_time)

\* faulty variant: calls GetCumulativeInventory
get_inventory_change_at_time_cumulative(product_location, time) ==
    LET cs_time == python_datetime_to_csharp(time) IN
    GetCumulativeInventory(registry[product_location].entries, cs_time)

get_inventory_change_at_time(product_location, time) ==
    LET cs_time == python_datetime_to_csharp(time) IN
    GetInventoryChangeAtTime(registry[product_location].entries, cs_time)

\* faulty variant: entries with a zero netChange are left out of the list
get_all_inventory_changes_nonzero(product_location) ==
    LET changes == SelectSeq(GetAllInventoryChanges(registry[product_location].entries),
                             LAMBDA e : e.Item2 # 0)
    IN [i \in 1..Len(changes) |->
        <<csharp_datetime_to_python(changes[i].Item1), changes[i].Item2>>]

get_all_inventory_changes(product_location) ==
    LET changes == GetAllInventoryChanges(registry[product_location].entries) IN
    [i \in 1..Len(changes) |->
        <<csharp_datetime_to_python(changes[i].Item1), changes[i].Item2>>]

\* faulty variant: the bounds are passed in the wrong order
get_inventory_changes_in_range_swapped(product_location, start_time, end_time) ==
    LET cs_start == python_datetime_to_csharp(start_time)
        cs_end == python_datetime_to_csharp(end_time)
        changes == GetInventoryChangesInRange(registry[product_location].entries,
                                              cs_end, cs_start)
    IN [i \in 1..Len(changes) |->
        <<csharp_datetime_to_python(changes[i].Item1), changes[i].Item2>>]

get_inventory_changes_in_range(product_location, start_time, end_time) ==
    LET cs_start == python_datetime_to_csharp(start_time)
        cs_end == python_datetime_to_csharp(end_time)
        changes == GetInventoryChangesInRange(registry[product_location].entries,
                                              cs_start, cs_end)
    IN [i \in 1..Len(changes) |->
        <<csharp_datetime_to_python(changes[i].Item1), changes[i].Item2>>]

\* ------------------------------------------------------- specifications
NoCall == Call("none", "", "", NoTime, 0, "None", "None")

\* the writes the bounded runs take: the stored netChange stays within MaxNet
WithinNet(product_location, time, delta, overwrite) ==
    LET old == IF overwrite THEN 0 ELSE get_inventory_change_at_time(product_location, time)
        new == old + delta
    IN (0 - MaxNet) <= new /\ new <= MaxNet

\* Full system: nothing registered yet.
Init ==
    /\ products = {}
    /\ locations = {}
    /\ registry = <<>>
    /\ last = NoCall
    /\ discarded = {}

Next ==
    \/ \E name \in ProductNames : Product_create(name)
    \/ \E name \in ProductNames : Product_remove(name)
    \/ \E name \in LocationNames : Location_create(name)
    \/ \E name \in LocationNames : Location_remove(name)
    \/ \E p \in ProductNames, l \in LocationNames : ProductLocation_create(p, l)
    \/ \E p \in ProductNames, l \in LocationNames : ProductLocation_remove(p, l)
    \/ \E pl \in DOMAIN registry, t \in RegDateTimes, q \in Quantities :
            WithinNet(pl, t, q, FALSE) /\ add_inventory(pl, t, q)
    \/ \E pl \in DOMAIN registry, t \in RegDateTimes, q \in Quantities :
            WithinNet(pl, t, 0 - q, FALSE) /\ remove_inventory(pl, t, q)
    \/ \E pl \in DOMAIN registry, t \in RegDateTimes, c \in Quantities :
            WithinNet(pl, t, c, TRUE) /\ update_inventory(pl, t, c)

Spec == Init /\ [][Next]_vars

\* Relations and their ledgers, no entity is removed.
NextRelations ==
    \/ \E name \in ProductNames : Product_create(name)
    \/ \E name \in LocationNames : Location_create(name)
    \/ \E p \in ProductNames, l \in LocationNames : ProductLocation_create(p, l)
    \/ \E p \in ProductNames, l \in LocationNames : ProductLocation_remove(p, l)
    \/ \E pl \in DOMAIN registry, t \in RegDateTimes, q \in Quantities :
            WithinNet(pl, t, q, FALSE) /\ add_inventory(pl, t, q)
    \/ \E pl \in DOMAIN registry, t \in RegDateTimes, q \in Quantities :
            WithinNet(pl, t, 0 - q, FALSE) /\ remove_inventory(pl, t, q)
    \/ \E pl \in DOMAIN registry, t \in RegDateTimes, c \in Quantities :
            WithinNet(pl, t, c, TRUE) /\ update_inventory(pl, t, c)

SpecRelations == Init /\ [][NextRelations]_vars

\* One ledger: the state after Product.create, Location.create and
\* ProductLocation.create of the integration test, then ledger writes only.
TestProduct == "Widget"
TestLocation == "Warehouse-A"
pl1 == RelationKey(TestProduct, TestLocation)

InitLedger ==
    /\ products = {TestProduct}
    /\ locations = {TestLocation}
    /\ registry = (pl1 :> NewRelation(TestProduct, TestLocation))
    /\ last = Call("ProductLocation.create", TestProduct, TestLocation, NoTime, 0, "None", pl1)
    /\ discarded = {}

NextLedger ==
    \/ \E t \in DateTimes, q \in Quantities :
            WithinNet(pl1, t, q, FALSE) /\ add_inventory(pl1, t, q)
    \/ \E t \in DateTimes, q \in Quantities :
            WithinNet(pl1, t, 0 - q, FALSE) /\ remove_inventory(pl1, t, q)
    \/ \E t \in DateTimes, c \in Quantities :
            WithinNet(pl1, t, c, TRUE) /\ update_inventory(pl1, t, c)

SpecLedger == InitLedger /\ [][NextLedger]_vars

\* ================================================================ claims
\* Datetimes are compared as the ledger stores them: InstantOf(dt) is the
\* millisecond a datetime addresses, StampOf(dt) the datetime the queries
\* report for an entry written at dt.
InstantOf(dt) == dt \div UsPerMs
StampOf(dt) == InstantOf(dt) * UsPerMs

\* the entries of a query result (pairs <<datetime, netChange>>) at datetime dt
At(changes, dt) == {i \in 1..Len(changes) : changes[i][1] = StampOf(dt)}

RECURSIVE SumUpTo(_, _, _)
SumUpTo(changes, T, i) ==
    IF i > Len(changes) THEN 0
    ELSE (IF changes[i][1] <= T THEN changes[i][2] ELSE 0) + SumUpTo(changes, T, i + 1)

StrictlyAscending(changes) ==
    \A i, j \in 1..Len(changes) : i < j => changes[i][1] < changes[j][1]

IsWrite(op) == op \in {"add_inventory", "remove_inventory", "update_inventory"}

\* ---- C1
C1_Sum ==
    \A T \in DateTimes :
        get_cumulative_inventory(pl1, T) = SumUpTo(get_all_inventory_changes(pl1), T, 1)

C1_Retroactive ==
    \A pl \in DOMAIN registry, t \in DateTimes :
        (last'.op = "update_inventory" /\ last'.a = pl /\ last'.time = t) =>
            LET old == get_inventory_change_at_time(pl, t) IN
            \A T \in DateTimes :
                get_cumulative_inventory(pl, T)' =
                    IF InstantOf(T) >= InstantOf(t)
                    THEN get_cumulative_inventory(pl, T) - old + last'.qty
                    ELSE get_cumulative_inventory(pl, T)

\* C1: after any sequence of add_inventory, remove_inventory and update_inventory
\* calls, get_cumulative_inventory(T) is the sum of the netChange of the entries
\* get_all_inventory_changes reports with timestamp <= T (0 when none); an
\* update_inventory at t moves the result of every query at T >= t by the change
\* of that entry and leaves every query at an instant before t as it was.
C1_CumulativeCorrect == []C1_Sum /\ [][C1_Retroactive]_vars

\* an update at the first millisecond has changed the totals of a two-entry ledger
C1_Witness ==
    /\ last.op = "update_inventory" /\ InstantOf(last.time) = 0 /\ last.qty = 1
    /\ Len(get_all_inventory_changes(pl1)) = 2
    /\ get_cumulative_inventory(pl1, 0) = 1
    /\ get_cumulative_inventory(pl1, UsPerMs) = 3

\* ---- C2
\* C2: update_inventory(t, c) overwrites: after the call
\* get_inventory_change_at_time(t) = c whatever was stored at t before (so not
\* a + c after add_inventory(t, a)); the entry is created if it was absent and
\* no entry is added if it was present.
C2_UpdateOverwrites ==
    [][\A pl \in DOMAIN registry, t \in DateTimes :
        (last'.op = "update_inventory" /\ last'.a = pl /\ last'.time = t) =>
            /\ get_inventory_change_at_time(pl, t)' = last'.qty
            /\ Cardinality(At(get_all_inventory_changes(pl), t)') = 1
            /\ Len(get_all_inventory_changes(pl))' =
                   Len(get_all_inventory_changes(pl))
                   + (IF At(get_all_inventory_changes(pl), t) = {} THEN 1 ELSE 0)]_vars

\* update_inventory(t, -1) was the last call; the ledger holds two entries
C2_Witness ==
    /\ last.op = "update_inventory" /\ last.qty = 0 - 1
    /\ get_inventory_change_at_time(pl1, last.time) = 0 - 1
    /\ Len(get_all_inventory_changes(pl1)) = 2

\* ---- C3
\* C3: add_inventory(t, q) accumulates: an entry at t with value v becomes v + q,
\* an absent entry is created with value q, and in both cases the ledger then
\* has exactly one entry at t.
C3_AddAccumulates ==
    [][\A pl \in DOMAIN registry, t \in DateTimes :
        (last'.op = "add_inventory" /\ last'.a = pl /\ last'.time = t) =>
            /\ Cardinality(At(get_all_inventory_changes(pl), t)') = 1
            /\ IF At(get_all_inventory_changes(pl), t) = {}
               THEN /\ get_inventory_change_at_time(pl, t)' = last'.qty
                    /\ Len(get_all_inventory_changes(pl))' =
                           Len(get_all_inventory_changes(pl)) + 1
               ELSE /\ get_inventory_change_at_time(pl, t)' =
                           get_inventory_change_at_time(pl, t) + last'.qty
                    /\ Len(get_all_inventory_changes(pl))' =
                           Len(get_all_inventory_changes(pl))]_vars

\* add_inventory(t, 1) has brought the single entry at t to 1 + 1
C3_Witness ==
    /\ last.op = "add_inventory" /\ last.qty = 1
    /\ get_inventory_change_at_time(pl1, last.time) = 2
    /\ Cardinality(At(get_all_inventory_changes(pl1), last.time)) = 1

\* ---- C4
\* C4: remove_inventory(t, q) accumulates -q into the entry at t (v becomes
\* v - q), creating an entry with value -q when there is none; the ledger then
\* has a single entry at t and get_cumulative_inventory(t) has changed by -q.
C4_RemoveMirrorsAdd ==
    [][\A pl \in DOMAIN registry, t \in DateTimes :
        (last'.op = "remove_inventory" /\ last'.a = pl /\ last'.time = t) =>
            /\ Cardinality(At(get_all_inventory_changes(pl), t)') = 1
            /\ get_cumulative_inventory(pl, t)' =
                   get_cumulative_inventory(pl, t) - last'.qty
            /\ IF At(get_all_inventory_changes(pl), t) = {}
               THEN /\ get_inventory_change_at_time(pl, t)' = 0 - last'.qty
                    /\ Len(get_all_inventory_changes(pl))' =
                           Len(get_all_inventory_changes(pl)) + 1
               ELSE /\ get_inventory_change_at_time(pl, t)' =
                           get_inventory_change_at_time(pl, t) - last'.qty
                    /\ Len(get_all_inventory_changes(pl))' =
                           Len(get_all_inventory_changes(pl))]_vars

\* remove_inventory(t, 1) has left the single entry at t at 2 - 1
C4_Witness ==
    /\ last.op = "remove_inventory" /\ last.qty = 1
    /\ get_inventory_change_at_time(pl1, last.time) = 1
    /\ get_cumulative_inventory(pl1, last.time) = 1
    /\ Len(get_all_inventory_changes(pl1)) = 1

\* ---- C5
\* C5: get_inventory_change_at_time(t) returns the netChange of the entry at t
\* and 0 when the ledger has no entry at t, whatever its other entries hold.
C5_ChangeAtTime ==
    \A t \in DateTimes :
        LET changes == get_all_inventory_changes(pl1) IN
        get_inventory_change_at_time(pl1, t) =
            IF At(changes, t) = {} THEN 0
            ELSE changes[CHOOSE i \in At(changes, t) : TRUE][2]

\* the only entry is at the second millisecond: a query at the first gives 0
C5_Witness ==
    /\ IsWrite(last.op)
    /\ get_all_inventory_changes(pl1) = <<<<UsPerMs, 2>>>>
    /\ get_inventory_change_at_time(pl1, 0) = 0
    /\ get_inventory_change_at_time(pl1, UsPerMs) = 2

\* ---- C6
InRange(changes, s, e) ==
    SelectSeq(changes, LAMBDA c : InstantOf(s) <= InstantOf(c[1])
                                  /\ InstantOf(c[1]) <= InstantOf(e))

C7_SortedOutput ==
    /\ StrictlyAscending(get_all_inventory_changes(pl1))
    /\ \A s, e \in DateTimes :
           StrictlyAscending(get_inventory_changes_in_range(pl1, s, e))

\* the last write was at the first millisecond; an entry at the second is there
C7_Witness ==
    /\ IsWrite(last.op) /\ InstantOf(last.time) = 0
    /\ Len(get_all_inventory_changes(pl1)) = 2
    /\ get_inventory_change_at_time(pl1, 0) = last.qty
    /\ last.qty = 1
    /\ get_all_inventory_changes(pl1)[2] = <<UsPerMs, 0 - 2>>

\* ---- C8
C8_Keys ==
    /\ \A k \in DOMAIN registry :
           /\ registry[k].Key = k
           /\ k = registry[k].ProductName \o "@" \o registry[k].LocationName
    /\ \A r1, r2 \in ProductLocation_get_all : r1.Key = r2.Key => r1 = r2
    /\ Cardinality(ProductLocation_get_all) = Cardinality(DOMAIN registry)
    /\ (last.op = "ProductLocation.create" /\ last.raised = "None") =>
           /\ last.ret = last.a \o "@" \o last.b
           /\ last.ret \in DOMAIN registry
           /\ registry[last.ret].ProductName = last.a
           /\ registry[last.ret].LocationName = last.b

C8_CreateExisting ==
    \A p \in ProductNames, l \in LocationNames :
        (/\ last'.op = "ProductLocation.create" /\ last'.a = p /\ last'.b = l
         /\ ProductLocation_exists(p, l)) =>
            /\ last'.raised = "None"
            /\ last'.ret = p \o "@" \o l
            /\ registry' = registry

C8_NewIsEmpty ==
    \A p \in ProductNames, l \in LocationNames :
        (/\ last'.op = "ProductLocation.create" /\ last'.a = p /\ last'.b = l
         /\ ~ProductLocation_exists(p, l) /\ last'.raised = "None") =>
            /\ DOMAIN registry' = DOMAIN registry \cup {p \o "@" \o l}
            /\ get_all_inventory_changes(p \o "@" \o l)' = <<>>
            /\ \A k \in DOMAIN registry : registry'[k] = registry[k]

\* C8: after any sequence of ProductLocation.create and ProductLocation.remove
\* calls the registry holds at most one relation per key, the key of the
\* relation for (p, l) is p + "@" + l, and create(p, l) on a registered pair
\* returns the existing relation and leaves it, and the entries of its ledger,
\* as they were.
C8_RelationUnique == []C8_Keys /\ [][C8_CreateExisting /\ C8_NewIsEmpty]_vars

\* create on a registered pair whose ledger holds an entry has returned that
\* relation, entry included, while a second relation is registered
C8_Witness ==
    /\ last.op = "ProductLocation.create" /\ last.raised = "None"
    /\ last.ret = "Widget@Warehouse-A"
    /\ get_all_inventory_changes("Widget@Warehouse-A") = <<<<0, 2>>>>
    /\ Cardinality(DOMAIN registry) = 2

\* ---- C9
C9_Returned ==
    /\ (last.op = "Product.create" =>
            last.raised = "None" /\ last.ret = last.a /\ Product_exists(last.a))
    /\ (last.op = "Location.create" =>
            last.raised = "None" /\ last.ret = last.a /\ Location_exists(last.a))

C9_Upsert ==
    /\ \A name \in ProductNames :
        (last'.op = "Product.create" /\ last'.a = name) =>
            /\ last'.raised = "None" /\ last'.ret = name
            /\ Product_get_all' = Product_get_all \cup {name}
            /\ Cardinality(Product_get_all') =
                   Cardinality(Product_get_all) + (IF Product_exists(name) THEN 0 ELSE 1)
            /\ UNCHANGED <<locations, registry>>
    /\ \A name \in LocationNames :
        (last'.op = "Location.create" /\ last'.a = name) =>
            /\ last'.raised = "None" /\ last'.ret = name
            /\ Location_get_all' = Location_get_all \cup {name}
            /\ Cardinality(Location_get_all') =
                   Cardinality(Location_get_all) + (IF Location_exists(name) THEN 0 ELSE 1)
            /\ UNCHANGED <<products, registry>>

\* C9: Product.create(name) and Location.create(name) are idempotent upserts:
\* with a registered name the call returns the entity of that name, signals no
\* error and leaves the catalog and its size unchanged; with an unregistered
\* name it adds exactly that entity.
C9_IdempotentCreate == []C9_Returned /\ [][C9_Upsert]_vars

\* Product.create has returned Widget; the catalog holds both products and a
\* relation of Widget is registered
C9_Witness ==
    /\ last.op = "Product.create" /\ last.a = "Widget" /\ last.ret = "Widget"
    /\ Product_get_all = {"Widget", "Gadget"}
    /\ ProductLocation_exists("Widget", "Warehouse-A")

\* ---- C10
C10_Raised ==
    (/\ last.op = "ProductLocation.create"
     /\ (~Product_exists(last.a) \/ ~Location_exists(last.b))) =>
        last.raised = "NotFound" /\ last.ret = "None"

C10_NothingRegistered ==
    \A p \in ProductNames, l \in LocationNames :
        (/\ last'.op = "ProductLocation.create" /\ last'.a = p /\ last'.b = l
         /\ (~Product_exists(p) \/ ~Location_exists(l))) =>
            /\ last'.raised = "NotFound"
            /\ UNCHANGED <<registry, products, locations>>

\* C10: ProductLocation.create(p, l) with p not a registered product or l not a
\* registered location signals NotFound, registers no relation and no ledger,
\* and creates neither the product nor the location.
C10_CreateRequiresEntities == []C10_Raised /\ [][C10_NothingRegistered]_vars

\* create for a product that is not registered, at a registered location
C10_Witness ==
    /\ last.op = "ProductLocation.create" /\ last.raised = "NotFound"
    /\ last.a = "Gadget" /\ ~Product_exists("Gadget")
    /\ Location_exists(last.b)
    /\ ~ProductLocation_exists("Gadget", last.b)
    /\ Product_exists("Widget")

\* ---- C11
Stamps(changes) == {changes[i][1] : i \in 1..Len(changes)}

C11_WrittenIsPresent ==
    IsWrite(last.op) => StampOf(last.time) \in Stamps(get_all_inventory_changes(last.a))

C11_NeverAbsent ==
    \A pl \in DOMAIN registry :
        IsWrite(last'.op) =>
            /\ pl \in DOMAIN registry'
            /\ Stamps(get_all_inventory_changes(pl)) \subseteq
                   Stamps(get_all_inventory_changes(pl))'
            /\ Len(get_all_inventory_changes(pl))' >= Len(get_all_inventory_changes(pl))

\* C11: along every sequence of ledger operations the set of timestamps that
\* have an entry only grows: add, remove and update create an entry or change
\* its value, and an entry whose netChange has become 0 is still present and
\* still returned by get_all_inventory_changes().
C11_EntriesOnlyGrow == []C11_WrittenIsPresent /\ [][C11_NeverAbsent]_vars

\* remove_inventory(t, 1) has brought the entry at t from 1 to 0: it is listed
C11_Witness ==
    /\ last.op = "remove_inventory" /\ last.qty = 1
    /\ get_inventory_change_at_time(pl1, last.time) = 0
    /\ \E i \in 1..Len(get_all_inventory_changes(pl1)) :
           get_all_inventory_changes(pl1)[i] = <<StampOf(last.time), 0>>
    /\ Len(get_all_inventory_changes(pl1)) = 2

\* ---- C12
\* two datetimes fall in the same millisecond
SameMs(t1, t2) == t1 \div UsPerMs = t2 \div UsPerMs

C12_OnePerMs ==
    LET changes == get_all_inventory_changes(pl1) IN
    /\ \A i \in 1..Len(changes) : changes[i][1] % UsPerMs = 0
    /\ \A i, j \in 1..Len(changes) : SameMs(changes[i][1], changes[j][1]) => i = j
    /\ \A t1, t2 \in DateTimes :
           SameMs(t1, t2) =>
               get_inventory_change_at_time(pl1, t1) = get_inventory_change_at_time(pl1, t2)
    /\ (IsWrite(last.op) =>
           \E i \in 1..Len(changes) :
               /\ SameMs(changes[i][1], last.time)
               /\ changes[i][1] = (last.time \div UsPerMs) * UsPerMs)

C12_WriteAddresses ==
    \A pl \in DOMAIN registry, t \in DateTimes :
        (IsWrite(last'.op) /\ last'.a = pl /\ last'.time = t) =>
            LET before == get_all_inventory_changes(pl)
                after == get_all_inventory_changes(pl)'
                hadMs == \E i \in 1..Len(before) : SameMs(before[i][1], t)
            IN
            /\ Len(after) = Len(before) + (IF hadMs THEN 0 ELSE 1)
            /\ \A i \in 1..Len(before) :
                   ~SameMs(before[i][1], t) =>
                       \E j \in 1..Len(after) : after[j] = before[i]
            /\ \A t2 \in DateTimes :
                   ~SameMs(t2, t) =>
                       get_inventory_change_at_time(pl, t2)' =
                           get_inventory_change_at_time(pl, t2)

\* C12: timestamps are keyed at millisecond precision: the wrapper drops the
\* sub-millisecond microseconds of a datetime (microsecond // 1000), so two
\* writes whose datetimes fall in the same millisecond address one entry (the
\* second accumulates into or overwrites the first, the ledger has one entry),
\* and two writes in different milliseconds address different entries.
C12_MillisecondKeys == []C12_OnePerMs /\ [][C12_WriteAddresses]_vars

\* add_inventory at 999 microseconds has accumulated 1 into the only entry,
\* which is listed at 0 microseconds and now holds 2
C12_Witness ==
    /\ last.op = "add_inventory" /\ last.time = UsPerMs - 1 /\ last.qty = 1
    /\ get_all_inventory_changes(pl1) = <<<<0, 2>>>>
    /\ get_inventory_change_at_time(pl1, 0) = 2
    /\ get_inventory_change_at_time(pl1, UsPerMs) = 0

\* ---- C13
C13_Unregistered ==
    last.op = "ProductLocation.remove" =>
        /\ ~ProductLocation_exists(last.a, last.b)
        /\ ProductLocation_get_by_key(last.a \o "@" \o last.b).raised = "NotFound"

C13_FreshLedger ==
    \A p \in ProductNames, l \in LocationNames :
        (/\ last.op = "ProductLocation.remove" /\ last.a = p /\ last.b = l
         /\ last'.op = "ProductLocation.create" /\ last'.a = p /\ last'.b = l
         /\ last'.raised = "None") =>
            /\ last'.ret = p \o "@" \o l
            /\ ProductLocation_exists(p, l)'
            /\ get_all_inventory_changes(p \o "@" \o l)' = <<>>
            /\ \A T \in DateTimes : get_cumulative_inventory(p \o "@" \o l, T)' = 0

\* C13: ProductLocation.remove(p, l) discards the relation's ledger with the
\* relation: after remove(p, l) followed by create(p, l) the relation under p@l
\* has an empty ledger, get_all_inventory_changes() is empty and
\* get_cumulative_inventory(T) = 0 for every T, whatever had been recorded.
C13_RemoveDiscardsLedger == []C13_Unregistered /\ [][C13_FreshLedger]_vars

\* the relation was removed while its ledger held entries and has been
\* created again: its ledger is empty
C13_Witness ==
    /\ last.op = "ProductLocation.create" /\ last.raised = "None"
    /\ last.ret = "Widget@Warehouse-A"
    /\ "Widget@Warehouse-A" \in discarded
    /\ get_all_inventory_changes("Widget@Warehouse-A") = <<>>
    /\ get_cumulative_inventory("Widget@Warehouse-A", UsPerMs - 1) = 0

\* ---- C14
C14_NoCascade ==
    (last'.op \in {"Product.remove", "Location.remove"}) =>
        /\ registry' = registry
        /\ \A k \in DOMAIN registry :
               /\ ProductLocation_exists(registry[k].ProductName, registry[k].LocationName)'
               /\ ProductLocation_get_by_key(k)' = [raised |-> "None", ret |-> k]
               /\ get_all_inventory_changes(k)' = get_all_inventory_changes(k)

\* C14: removing an entity does not cascade: Product.remove(p) and
\* Location.remove(l) leave the relation registry and every ledger as they
\* were; a relation p@l registered before is still found by exists and
\* get_by_key, with the same entries.
C14_EntityRemoveKeepsRelations == [][C14_NoCascade]_vars

\* the product Widget has just been removed; its relation is still registered
\* and its ledger still holds its entry
C14_Witness ==
    /\ last.op = "Product.remove" /\ last.a = "Widget" /\ last.ret = "True"
    /\ ~Product_exists("Widget")
    /\ ProductLocation_exists("Widget", "Warehouse-A")
    /\ ProductLocation_get_by_key("Widget@Warehouse-A").raised = "None"
    /\ get_all_inventory_changes("Widget@Warehouse-A") = <<<<0, 2>>>>

====
